---- MODULE Spec2Model ----
(***************************************************************************)
(* Model of jupiter-swap-api-client/src/lib.rs: the client facade          *)
(* (quote, swap, swap_instructions), the status check and deserialization  *)
(* helpers, and the ClientError taxonomy.  Every call is a future: it runs *)
(* synchronously up to `.send().await`, is suspended while the transport   *)
(* works, and runs to completion once the transport has delivered.         *)
(***************************************************************************)
EXTENDS Integers, Sequences, FiniteSets, Bags, TLC

\* ------------------------------------------------------------------ bounds
\* Longest instruction list of a swap-instructions response.
MaxInstructions == 2
\* Most entries of an open-ended extension mapping (quote_args, extra_args).
MaxArgs == 1

\* Two calls issued against one client instance, in any interleaving.  The
\* calls share nothing but the client, so what holds of every pair of calls
\* holds of any number of them.
Calls == {1, 2}

\* ------------------------------------------------------------ basic values
\* Option<T>: the empty sequence is None, a one-element sequence is Some(v).
None == << >>
Some(v) == << v >>
IsSome(o) == Len(o) = 1
Unwrap(o) == o[1]

\* HashMap<String, String>: a function from keys to values.
\* The key/value pairs a map serializes to (serde_urlencoded yields one pair
\* per entry; the iteration order of a HashMap is unspecified, hence a bag).
MapPairs(m) == SetToBag({<<k, m[k]>> : k \in DOMAIN m})
\* `.query(&Option<HashMap>)`: None serializes to no pair at all.
OptionMapPairs(o) == IF IsSome(o) THEN MapPairs(Unwrap(o)) ELSE EmptyBag

\* Strings whose bytes matter (the API key) are sequences of byte values.
KeyPlain == <<107, 49>>        \* "k1"
KeyNewline == <<107, 10, 49>>  \* "k\n1"

\* ------------------------------------------------------- client (lib.rs:18)
BasePaths == {"https://quote-api.example/v6"}
ApiKeys == {None, Some(KeyPlain), Some(KeyNewline)}

\* JupiterSwapApiClient::new
new(base_path, api_key) == [base_path |-> base_path, api_key |-> api_key]

\* --------------------------------------------------------------- requests
\* QuoteRequest (caller-facing): modeled fields plus the open-ended quote_args.
DexLists == {None, Some(<<"Orca", "Raydium">>)}
\* Extension keys: one the client has no modeled field for, one that is also
\* the wire name of a modeled field.
ExtensionKeys == <<"foo", "slippageBps", "bar">>
ExtensionValue(k) == IF k = "slippageBps" THEN "7" ELSE "v-" \o k
\* The mappings of 0..MaxArgs entries over the first keys.
ExtensionMaps ==
    {[k \in {ExtensionKeys[i] : i \in 1..n} |-> ExtensionValue(k)] : n \in 0..MaxArgs}
QuoteArgs == {None} \cup {Some(m) : m \in ExtensionMaps}
QuoteRequests ==
    [input_mint : {"So111"}, output_mint : {"EPjF"}, amount : {"1000000"},
     slippage_bps : {"50"}, dexes : DexLists, quote_args : QuoteArgs]

\* SwapRequest (caller-facing).
SwapRequests ==
    [user_public_key : {"payer1"}, quote_response : {"quote#1"},
     wrap_and_unwrap_sol : {TRUE}]
ExtraArgs == {None} \cup {Some(m) : m \in ExtensionMaps}

\* The comma-joined encoding of a sequence of names.
RECURSIVE JoinComma(_)
JoinComma(s) ==
    IF Len(s) = 0 THEN ""
    ELSE IF Len(s) = 1 THEN s[1]
    ELSE s[1] \o "," \o JoinComma(Tail(s))

\* InternalQuoteRequest::from(QuoteRequest): the wire-shaped projection; the
\* modeled fields are renamed/encoded, quote_args is not part of it.
InternalQuoteRequest_from(q) ==
    [inputMint |-> q.input_mint, outputMint |-> q.output_mint,
     amount |-> q.amount, slippageBps |-> q.slippage_bps,
     dexes |-> IF IsSome(q.dexes) THEN Some(JoinComma(Unwrap(q.dexes))) ELSE None]

\* The query pairs the shaped request serializes to: one pair per field, an
\* absent optional field yields none.
InternalQuoteRequest_pairs(i) ==
    SetToBag({<<"inputMint", i.inputMint>>, <<"outputMint", i.outputMint>>,
              <<"amount", i.amount>>, <<"slippageBps", i.slippageBps>>})
    (+) (IF IsSome(i.dexes) THEN SetToBag({<<"dexes", Unwrap(i.dexes)>>}) ELSE EmptyBag)

\* `.json(swap_request)`: the JSON encoding of the request as the body.
JsonBody(v) == [content_type |-> "application/json", json |-> v]

\* ---------------------------------------------------------------- headers
\* HeaderValue::from_str accepts visible ASCII, space and tab only.
IsValidHeaderByte(b) == b = 9 \/ (b >= 32 /\ b < 127)

\* Faulty variant: the key is taken as a header value without validation.
HeaderValue_from_str_Unchecked(s) == [ok |-> TRUE, value |-> s]

HeaderValue_from_str(s) ==
    IF \A i \in DOMAIN s : IsValidHeaderByte(s[i])
    THEN [ok |-> TRUE, value |-> s]
    ELSE [ok |-> FALSE, value |-> << >>]

\* Faulty variant: without a key the header is still sent, with an empty value.
BuildHeaders_EmptyWhenNone(api_key) ==
    IF IsSome(api_key)
    THEN LET hv == HeaderValue_from_str(Unwrap(api_key))
         IN  IF hv.ok THEN [ok |-> TRUE, headers |-> {<<"x-api-key", hv.value>>}]
             ELSE [ok |-> FALSE, headers |-> {}]
    ELSE [ok |-> TRUE, headers |-> {<<"x-api-key", << >> >>}]

\* lib.rs:65-71 (and 87-93, 108-114): the header map of a call, or the
\* InvalidHeader failure.  A header map is a set of <<name, value>> pairs.
BuildHeaders(api_key) ==
    IF IsSome(api_key)
    THEN LET hv == HeaderValue_from_str(Unwrap(api_key))
         IN  IF hv.ok THEN [ok |-> TRUE, headers |-> {<<"x-api-key", hv.value>>}]
             ELSE [ok |-> FALSE, headers |-> {}]
    ELSE [ok |-> TRUE, headers |-> {}]

\* ------------------------------------------------------ outgoing requests
\* Faulty variant: the `.query(&extra_args)` of quote is left out.
QuoteHttpRequest_NoExtraArgs(cl, quote_request, headers) ==
    [method |-> "GET", url |-> cl.base_path \o "/quote",
     query |-> InternalQuoteRequest_pairs(InternalQuoteRequest_from(quote_request)),
     body |-> None, headers |-> headers]

\* lib.rs:62-77
QuoteHttpRequest(cl, quote_request, headers) ==
    LET url == cl.base_path \o "/quote"
        extra_args == quote_request.quote_args
        internal_quote_request == InternalQuoteRequest_from(quote_request)
    IN  [method |-> "GET", url |-> url,
         query |-> InternalQuoteRequest_pairs(internal_quote_request)
                   (+) OptionMapPairs(extra_args),
         body |-> None, headers |-> headers]

\* lib.rs:94-99
SwapHttpRequest(cl, swap_request, extra_args, headers) ==
    [method |-> "POST", url |-> cl.base_path \o "/swap",
     query |-> OptionMapPairs(extra_args),
     body |-> Some(JsonBody(swap_request)), headers |-> headers]

\* Faulty variant: swap_instructions posts to the path of swap.
SwapInstructionsHttpRequest_SwapPath(cl, swap_request, headers) ==
    [method |-> "POST", url |-> cl.base_path \o "/swap",
     query |-> EmptyBag,
     body |-> Some(JsonBody(swap_request)), headers |-> headers]

\* lib.rs:115-119
SwapInstructionsHttpRequest(cl, swap_request, headers) ==
    [method |-> "POST", url |-> cl.base_path \o "/swap-instructions",
     query |-> EmptyBag,
     body |-> Some(JsonBody(swap_request)), headers |-> headers]

\* -------------------------------------------------------------- responses
\* A response body as text: a JSON document of some schema, or no JSON at all.
\* `content` stands for the document's (or the text's) content.
Text(schema, content) == [schema |-> schema, content |-> content]
EmptyText == Text("none", << >>)                 \* String::default()
PlainText == Text("none", <<105, 108>>)          \* "insufficient liquidity"
QuoteJson == Text("QuoteResponse", <<60, 40>>)   \* route plan legs (percent)
SwapJson == Text("SwapResponse", <<77, 1234>>)   \* transaction, block height

\* Instruction lists in a known order: none, and 1..N ascending and descending.
InstructionLists ==
    {<< >>, [i \in 1..MaxInstructions |-> i],
     [i \in 1..MaxInstructions |-> MaxInstructions + 1 - i]}
InstructionsJson == {Text("SwapInstructionsResponseInternal", l) : l \in InstructionLists}

Texts == {PlainText, QuoteJson, SwapJson} \cup InstructionsJson

\* A body that cannot be read (the connection breaks while it streams) still
\* has the bytes that would have come.
Bodies == [readable : {TRUE}, text : Texts] \cup [readable : {FALSE}, text : {PlainText}]
Statuses == {200, 400, 503}
Responses == [kind : {"response"}, status : Statuses, body : Bodies]
\* `.send()` fails: connection failure, request could not be built, ...
TransportError == [kind |-> "error", status |-> 0, body |-> [readable |-> FALSE, text |-> EmptyText]]
Outcomes == Responses \cup {TransportError}

\* StatusCode::is_success
is_success(status) == status >= 200 /\ status < 300

\* Response::text(): the body as text, or an error when it cannot be read.
text(response) ==
    IF response.body.readable THEN [ok |-> TRUE, value |-> response.body.text]
    ELSE [ok |-> FALSE, value |-> EmptyText]
\* Result::unwrap_or_default
unwrap_or_default(r) == IF r.ok THEN r.value ELSE EmptyText

\* The wire types the three operations deserialize into.
WireType(o) ==
    CASE o = "quote" -> "QuoteResponse"
      [] o = "swap" -> "SwapResponse"
      [] o = "swap_instructions" -> "SwapInstructionsResponseInternal"

\* The value a JSON document of schema T decodes to.
Decoded(T, content) ==
    IF T = "SwapInstructionsResponseInternal"
    THEN [type |-> T,
          items |-> [i \in DOMAIN content |->
                        [program_id |-> content[i], encoded |-> TRUE]]]
    ELSE [type |-> T, items |-> content]

\* Response::json::<T>(): fails when the body cannot be read, is not JSON,
\* or is JSON of another schema.
json(T, response) ==
    IF response.body.readable /\ response.body.text.schema = T
    THEN [ok |-> TRUE, value |-> Decoded(T, response.body.text.content)]
    ELSE [ok |-> FALSE, value |-> [type |-> "none", items |-> << >>]]

\* ------------------------------------------------- ClientError (lib.rs:24)
NoResult == [kind |-> "pending"]
Ok(v) == [kind |-> "Ok", value |-> v]
RequestFailed(status, body) == [kind |-> "RequestFailed", status |-> status, body |-> body]
DeserializationError == [kind |-> "DeserializationError"]
InvalidHeader == [kind |-> "InvalidHeader"]
ErrorKinds == {"RequestFailed", "DeserializationError", "InvalidHeader"}

\* Faulty variant: a non-success response whose body cannot be read is let through.
check_is_success_Fallback(response) ==
    IF ~is_success(response.status) /\ text(response).ok
    THEN RequestFailed(response.status, text(response).value)
    ELSE Ok(response)

\* lib.rs:37-44
check_is_success(response) ==
    IF ~is_success(response.status)
    THEN LET status == response.status
             body == unwrap_or_default(text(response))
         IN  RequestFailed(status, body)
    ELSE Ok(response)

\* Faulty variant: the body is decoded first and the status checked only when that fails.
check_status_code_and_deserialize_DecodeFirst(T, response) ==
    LET decoded == json(T, response)
    IN  IF decoded.ok THEN Ok(decoded.value)
        ELSE LET checked == check_is_success(response)
             IN  IF checked.kind # "Ok" THEN checked ELSE DeserializationError

\* lib.rs:46-54
check_status_code_and_deserialize(T, response) ==
    LET checked == check_is_success(response)
    IN  IF checked.kind # "Ok" THEN checked
        ELSE LET decoded == json(T, checked.value)
             IN  IF decoded.ok THEN Ok(decoded.value) ELSE DeserializationError

\* From<SwapInstructionsResponseInternal> for SwapInstructionsResponse: each
\* wire instruction is converted, in place, to its caller-facing form.
InstructionInto(ii) == [program_id |-> ii.program_id, encoded |-> FALSE]
SwapInstructionsResponse_from(internal) ==
    [type |-> "SwapInstructionsResponse",
     items |-> [i \in DOMAIN internal.items |-> InstructionInto(internal.items[i])]]

\* Result::map(Into::into), lib.rs:121-123
MapInto(r) == IF r.kind = "Ok" THEN Ok(SwapInstructionsResponse_from(r.value)) ELSE r

\* What each operation does with what `.send().await` yields.
\* `.await?` turns a transport error into DeserializationError (lib.rs:32).
QuoteResult(outcome) ==
    IF outcome.kind = "error" THEN DeserializationError
    ELSE check_status_code_and_deserialize("QuoteResponse", outcome)

\* Faulty variant: a failed send yields an empty SwapResponse instead of the error.
SwapResult_DefaultOnError(outcome) ==
    IF outcome.kind = "error" THEN Ok([type |-> "SwapResponse", items |-> << >>])
    ELSE check_status_code_and_deserialize("SwapResponse", outcome)

SwapResult(outcome) ==
    IF outcome.kind = "error" THEN DeserializationError
    ELSE check_status_code_and_deserialize("SwapResponse", outcome)

\* Faulty variant: the `.map(Into::into)` is left out.
SwapInstructionsResult_Unconverted(outcome) ==
    IF outcome.kind = "error" THEN DeserializationError
    ELSE check_status_code_and_deserialize("SwapInstructionsResponseInternal", outcome)

SwapInstructionsResult(outcome) ==
    IF outcome.kind = "error" THEN DeserializationError
    ELSE MapInto(check_status_code_and_deserialize("SwapInstructionsResponseInternal", outcome))

ResultOf(o, outcome) ==
    CASE o = "quote" -> QuoteResult(outcome)
      [] o = "swap" -> SwapResult(outcome)
      [] o = "swap_instructions" -> SwapInstructionsResult(outcome)

\* ------------------------------------------------------------------ state
VARIABLES
    client,     \* the JupiterSwapApiClient instance: base_path, api_key
    pc,         \* per call: "idle", "awaiting", "delivered", "done"
    op,         \* per call: the operation invoked
    request,    \* per call: the caller's request object (borrowed by the call)
    extra,      \* per call: the caller's extra_args (swap only)
    wire,       \* per call: the HTTP requests handed to `.send()`, in order
    resp,       \* per call: what `.send().await` resolved to
    result      \* per call: the Result the call returned

vars == <<client, pc, op, request, extra, wire, resp, result>>

NoRequest == [user_public_key |-> "", quote_response |-> "", wrap_and_unwrap_sol |-> FALSE]
NoOutcome == [kind |-> "none", status |-> 0, body |-> [readable |-> FALSE, text |-> EmptyText]]

Init ==
    /\ client \in {new(b, k) : b \in BasePaths, k \in ApiKeys}
    /\ pc = [c \in Calls |-> "idle"]
    /\ op = [c \in Calls |-> "none"]
    /\ request = [c \in Calls |-> NoRequest]
    /\ extra = [c \in Calls |-> None]
    /\ wire = [c \in Calls |-> << >>]
    /\ resp = [c \in Calls |-> NoOutcome]
    /\ result = [c \in Calls |-> NoResult]

\* Each operation runs without suspending up to its `.send().await`: it builds
\* the headers and either returns InvalidHeader or hands one request to the
\* transport and suspends.

\* lib.rs:61-78
quote(c, quote_request) ==
    /\ pc[c] = "idle"
    /\ op' = [op EXCEPT ![c] = "quote"]
    /\ request' = [request EXCEPT ![c] = quote_request]
    /\ extra' = [extra EXCEPT ![c] = None]
    /\ LET h == BuildHeaders(client.api_key)
       IN  IF h.ok
           THEN /\ wire' = [wire EXCEPT ![c] =
                               Append(@, QuoteHttpRequest(client, quote_request, h.headers))]
                /\ pc' = [pc EXCEPT ![c] = "awaiting"]
                /\ result' = result
           ELSE /\ wire' = wire
                /\ pc' = [pc EXCEPT ![c] = "done"]
                /\ result' = [result EXCEPT ![c] = InvalidHeader]
    /\ UNCHANGED <<client, resp>>

\* lib.rs:82-100
swap(c, swap_request, extra_args) ==
    /\ pc[c] = "idle"
    /\ op' = [op EXCEPT ![c] = "swap"]
    /\ request' = [request EXCEPT ![c] = swap_request]
    /\ extra' = [extra EXCEPT ![c] = extra_args]
    /\ LET h == BuildHeaders(client.api_key)
       IN  IF h.ok
           THEN /\ wire' = [wire EXCEPT ![c] =
                               Append(@, SwapHttpRequest(client, swap_request, extra_args, h.headers))]
                /\ pc' = [pc EXCEPT ![c] = "awaiting"]
                /\ result' = result
           ELSE /\ wire' = wire
                /\ pc' = [pc EXCEPT ![c] = "done"]
                /\ result' = [result EXCEPT ![c] = InvalidHeader]
    /\ UNCHANGED <<client, resp>>

\* lib.rs:104-120
swap_instructions(c, swap_request) ==
    /\ pc[c] = "idle"
    /\ op' = [op EXCEPT ![c] = "swap_instructions"]
    /\ request' = [request EXCEPT ![c] = swap_request]
    /\ extra' = [extra EXCEPT ![c] = None]
    /\ LET h == BuildHeaders(client.api_key)
       IN  IF h.ok
           THEN /\ wire' = [wire EXCEPT ![c] =
                               Append(@, SwapInstructionsHttpRequest(client, swap_request, h.headers))]
                /\ pc' = [pc EXCEPT ![c] = "awaiting"]
                /\ result' = result
           ELSE /\ wire' = wire
                /\ pc' = [pc EXCEPT ![c] = "done"]
                /\ result' = [result EXCEPT ![c] = InvalidHeader]
    /\ UNCHANGED <<client, resp>>

\* Faulty variant: a failed send is tried again.
Deliver_Retry(c, outcome) ==
    /\ pc[c] = "awaiting"
    /\ IF outcome.kind = "error" /\ Len(wire[c]) < 3
       THEN /\ wire' = [wire EXCEPT ![c] = Append(@, @[1])]
            /\ UNCHANGED <<pc, resp>>
       ELSE /\ resp' = [resp EXCEPT ![c] = outcome]
            /\ pc' = [pc EXCEPT ![c] = "delivered"]
            /\ wire' = wire
    /\ UNCHANGED <<client, op, request, extra, result>>

\* The transport resolves the pending `.send()` of call c: with an error, or
\* with a response (status and body).
Deliver(c, outcome) ==
    /\ pc[c] = "awaiting"
    /\ resp' = [resp EXCEPT ![c] = outcome]
    /\ pc' = [pc EXCEPT ![c] = "delivered"]
    /\ UNCHANGED <<client, op, request, extra, wire, result>>

\* Faulty variant: completing a call drops the API key from the client.
Resume_ForgetKey(c) ==
    /\ pc[c] = "delivered"
    /\ result' = [result EXCEPT ![c] = ResultOf(op[c], resp[c])]
    /\ pc' = [pc EXCEPT ![c] = "done"]
    /\ client' = [client EXCEPT !.api_key = None]
    /\ UNCHANGED <<op, request, extra, wire, resp>>

\* The call resumes after `.send().await` (lib.rs:78-79, 100-101, 120-123):
\* status check, deserialization and, for swap_instructions, conversion.
Resume(c) ==
    /\ pc[c] = "delivered"
    /\ result' = [result EXCEPT ![c] = ResultOf(op[c], resp[c])]
    /\ pc' = [pc EXCEPT ![c] = "done"]
    /\ UNCHANGED <<client, op, request, extra, wire, resp>>

Next ==
    \/ \E c \in Calls, q \in QuoteRequests : quote(c, q)
    \/ \E c \in Calls, s \in SwapRequests, e \in ExtraArgs : swap(c, s, e)
    \/ \E c \in Calls, s \in SwapRequests : swap_instructions(c, s)
    \/ \E c \in Calls, o \in Outcomes : Deliver(c, o)
    \/ \E c \in Calls : Resume(c)

Spec == Init /\ [][Next]_vars

\* The executor polls a future whose awaited transport result is ready; the
\* transport itself is under no obligation to answer.
FairSpec == Spec /\ \A c \in Calls : WF_vars(Resume(c))

\* ================================================================ claims
IsSuccessStatus(n) == n \in 200..299
Sent(c) == wire[c] # << >>
Done(c) == pc[c] = "done"
\* The response of call c is a success whose body decodes into the wire type.
Decodes(c) ==
    /\ resp[c].kind = "response"
    /\ IsSuccessStatus(resp[c].status)
    /\ resp[c].body.readable
    /\ resp[c].body.text.schema = WireType(op[c])
KeyHasNewline ==
    /\ IsSome(client.api_key)
    /\ \E i \in DOMAIN Unwrap(client.api_key) : Unwrap(client.api_key)[i] = 10

\* C1: with an API key that is not a legal header value (it contains a
\* newline), every call of quote, swap and swap_instructions ends with
\* InvalidHeader and hands no request to the transport, whatever the request.
C1_InvalidKeyFailsBeforeSend ==
    KeyHasNewline =>
        \A c \in Calls :
            /\ wire[c] = << >>
            /\ resp[c] = NoOutcome
            /\ pc[c] \in {"idle", "done"}
            /\ Done(c) => result[c] = InvalidHeader

C1_Witness ==
    /\ KeyHasNewline
    /\ \E c, d \in Calls :
        /\ op[c] = "quote" /\ IsSome(request[c].quote_args)
        /\ op[d] = "swap_instructions"
        /\ Done(c) /\ Done(d)
        /\ result[c] = InvalidHeader /\ result[d] = InvalidHeader
        /\ wire[c] = << >> /\ wire[d] = << >>

\* C2: a response with a non-2xx status makes the call fail with
\* RequestFailed carrying that status and the raw body text, also when the
\* body is valid JSON of the expected type; an unreadable body yields the
\* empty string, still as RequestFailed.
C2_NonSuccessIsRequestFailed ==
    \A c \in Calls :
        (Done(c) /\ resp[c].kind = "response" /\ ~IsSuccessStatus(resp[c].status))
        => /\ result[c].kind = "RequestFailed"
           /\ result[c].status = resp[c].status
           /\ result[c].body = IF resp[c].body.readable THEN resp[c].body.text
                               ELSE Text("none", << >>)

C2_Witness ==
    \E c, d \in Calls :
        /\ Done(c) /\ op[c] = "quote" /\ resp[c].status = 400
        /\ resp[c].body.readable /\ resp[c].body.text.schema = "QuoteResponse"
        /\ result[c] = RequestFailed(400, QuoteJson)
        /\ Done(d) /\ resp[d].status = 503 /\ ~resp[d].body.readable
        /\ result[d] = RequestFailed(503, EmptyText)

\* C3: a transport failure of the send, or a success-status response whose
\* body does not decode into the expected wire type, ends the call with
\* DeserializationError and nothing else; once the transport has delivered,
\* the call does finish.
C3_FailsToDecode(c) ==
    \/ resp[c].kind = "error"
    \/ /\ resp[c].kind = "response"
       /\ IsSuccessStatus(resp[c].status)
       /\ ~(resp[c].body.readable /\ resp[c].body.text.schema = WireType(op[c]))

C3_TransportOrDecodeFailure ==
    /\ [](\A c \in Calls :
            (Done(c) /\ C3_FailsToDecode(c)) => result[c] = DeserializationError)
    /\ \A c \in Calls :
            (pc[c] = "delivered" /\ C3_FailsToDecode(c))
            ~> (Done(c) /\ result[c] = DeserializationError)

C3_Witness ==
    \E c, d \in Calls :
        /\ Done(c) /\ op[c] = "swap" /\ resp[c].kind = "error"
        /\ result[c] = DeserializationError
        /\ Done(d) /\ resp[d].kind = "response" /\ resp[d].status = 200
        /\ resp[d].body.readable /\ resp[d].body.text = PlainText
        /\ result[d] = DeserializationError

\* C4: a call hands at most one request to the transport over its whole
\* execution: none when header building fails, exactly one otherwise, and no
\* outcome makes it send again.
C4_AtMostOneRequest ==
    \A c \in Calls :
        /\ Len(wire[c]) <= 1
        /\ (pc[c] # "idle" /\ result[c].kind # "InvalidHeader") => Len(wire[c]) = 1
        /\ result[c].kind = "InvalidHeader" => Len(wire[c]) = 0

C4_Witness ==
    \E c, d \in Calls :
        /\ Done(c) /\ resp[c].kind = "error" /\ Len(wire[c]) = 1
        /\ Done(d) /\ resp[d].kind = "response" /\ resp[d].status = 503
        /\ Len(wire[d]) = 1

\* C5: a finished call has exactly one outcome, a success value or one of the
\* three error variants; the first step that fails (header build, send,
\* status check, decode) decides it, a success means every step succeeded,
\* and a finished call stays as it finished.
C5_Outcome(c) ==
    /\ Done(c) <=> result[c].kind \in {"Ok"} \cup ErrorKinds
    /\ ~Done(c) => result[c] = NoResult
    /\ Done(c) =>
        /\ ("value" \in DOMAIN result[c]) <=> (result[c].kind = "Ok")
        /\ result[c].kind = "InvalidHeader" <=> ~Sent(c)
        /\ ~Sent(c) => resp[c] = NoOutcome
        /\ (Sent(c) /\ resp[c].kind = "error") => result[c].kind = "DeserializationError"
        /\ (Sent(c) /\ resp[c].kind = "response" /\ ~IsSuccessStatus(resp[c].status))
            => result[c].kind = "RequestFailed"
        /\ (Sent(c) /\ resp[c].kind = "response" /\ IsSuccessStatus(resp[c].status)
                /\ ~Decodes(c))
            => result[c].kind = "DeserializationError"
        /\ result[c].kind = "Ok" <=> (Sent(c) /\ Decodes(c))
        /\ result[c].kind = "Ok" =>
            Len(result[c].value.items) = Len(resp[c].body.text.content)

C5_ExactlyOneTerminalOutcome ==
    /\ [](\A c \in Calls : C5_Outcome(c))
    /\ [][\A c \in Calls :
            Done(c) => /\ pc'[c] = "done"
                       /\ result'[c] = result[c]
                       /\ wire'[c] = wire[c]
                       /\ resp'[c] = resp[c]]_vars

C5_Witness ==
    \E c, d \in Calls :
        /\ Done(c) /\ result[c].kind = "RequestFailed" /\ ~resp[c].body.readable
        /\ Done(d) /\ result[d].kind = "Ok" /\ op[d] = "quote"

\* C6: every request sent carries the x-api-key header with the configured
\* key exactly when the client has an API key; without a key the header is
\* absent.
C6_ApiKeyHeader ==
    \A c \in Calls : \A i \in DOMAIN wire[c] :
        {h \in wire[c][i].headers : h[1] = "x-api-key"}
            = IF IsSome(client.api_key)
              THEN {<<"x-api-key", Unwrap(client.api_key)>>}
              ELSE {}

C6_Witness ==
    /\ client.api_key = None
    /\ \E c, d \in Calls :
        /\ op[c] = "quote" /\ op[d] = "swap"
        /\ Len(wire[c]) = 1 /\ Len(wire[d]) = 1
        /\ wire[c][1].headers = {} /\ wire[d][1].headers = {}

\* C7: quote sends GET {base}/quote without a body, its query being the
\* shaped request's pairs together with the pairs of quote_args; swap sends
\* POST {base}/swap with the JSON-encoded SwapRequest and extra_args as the
\* query; swap_instructions sends POST {base}/swap-instructions with the
\* JSON-encoded SwapRequest and no query.
C7_SameBag(b1, b2) ==
    \A e \in BagToSet(b1) \cup BagToSet(b2) : CopiesIn(e, b1) = CopiesIn(e, b2)

C7_RequestShape ==
    \A c \in Calls : \A i \in DOMAIN wire[c] :
        LET r == wire[c][i]
        IN  CASE op[c] = "quote" ->
                   /\ r.method = "GET"
                   /\ r.url = client.base_path \o "/quote"
                   /\ r.body = None
                   /\ C7_SameBag(r.query,
                        InternalQuoteRequest_pairs(InternalQuoteRequest_from(request[c]))
                        (+) OptionMapPairs(request[c].quote_args))
              [] op[c] = "swap" ->
                   /\ r.method = "POST"
                   /\ r.url = client.base_path \o "/swap"
                   /\ r.body = Some([content_type |-> "application/json",
                                     json |-> request[c]])
                   /\ C7_SameBag(r.query, OptionMapPairs(extra[c]))
              [] op[c] = "swap_instructions" ->
                   /\ r.method = "POST"
                   /\ r.url = client.base_path \o "/swap-instructions"
                   /\ r.body = Some([content_type |-> "application/json",
                                     json |-> request[c]])
                   /\ BagToSet(r.query) = {}

C7_Witness ==
    \E c, d \in Calls :
        /\ op[c] = "swap_instructions" /\ Len(wire[c]) = 1
        /\ wire[c][1].url = client.base_path \o "/swap-instructions"
        /\ op[d] = "quote" /\ Len(wire[d]) = 1
        /\ IsSome(request[d].dexes)
        /\ BagIn(<<"dexes", "Orca,Raydium">>, wire[d][1].query)

\* C8: every key/value pair of quote_args (quote) and of extra_args (swap) is
\* in the query of the request sent, under its key and with its value, also
\* for keys the client has no field for; the caller's request and mapping are
\* the same after the call as before.
C8_ModeledNames == {"inputMint", "outputMint", "amount", "slippageBps", "dexes"}

C8_Carries(mapping, query) ==
    IsSome(mapping) =>
        \A k \in DOMAIN Unwrap(mapping) :
            /\ CopiesIn(<<k, Unwrap(mapping)[k]>>, query) >= 1
            /\ k \notin C8_ModeledNames =>
                \A e \in BagToSet(query) :
                    e[1] = k => (e[2] = Unwrap(mapping)[k] /\ CopiesIn(e, query) = 1)

C8_ExtensionArgsPassThrough ==
    /\ [](\A c \in Calls : \A i \in DOMAIN wire[c] :
            /\ op[c] = "quote" => C8_Carries(request[c].quote_args, wire[c][i].query)
            /\ op[c] = "swap" => C8_Carries(extra[c], wire[c][i].query))
    /\ [][\A c \in Calls :
            pc[c] # "idle" => (request'[c] = request[c] /\ extra'[c] = extra[c])]_vars

C8_Witness ==
    \E c, d \in Calls :
        /\ op[c] = "quote" /\ Done(c) /\ result[c].kind = "Ok"
        /\ request[c].quote_args = Some([k \in {"foo"} |-> "v-foo"])
        /\ BagIn(<<"foo", "v-foo">>, wire[c][1].query)
        /\ op[d] = "swap" /\ Len(wire[d]) = 1
        /\ extra[d] = Some([k \in {"foo"} |-> "v-foo"])
        /\ BagIn(<<"foo", "v-foo">>, wire[d][1].query)

\* C9: calls on one client do not interfere: no step changes the client's
\* base_path or api_key, every step changes the state of one call only, and
\* two finished calls of the same operation with the same request that got
\* the same response have equal results.
C9_CallState(c) == <<pc[c], op[c], request[c], extra[c], wire[c], resp[c], result[c]>>

C9_CallsIndependent ==
    /\ [][/\ client' = client
          /\ \A c, d \in Calls :
                (c # d /\ C9_CallState(c)' # C9_CallState(c))
                => C9_CallState(d)' = C9_CallState(d)]_vars
    /\ [](\A c, d \in Calls :
            (/\ Done(c) /\ Done(d)
             /\ op[c] = op[d]
             /\ request[c] = request[d]
             /\ extra[c] = extra[d]
             /\ resp[c] = resp[d])
            => result[c] = result[d])

C9_Witness ==
    /\ IsSome(client.api_key)
    /\ pc[1] = "done" /\ pc[2] = "done"
    /\ op[1] = "quote" /\ op[2] = "quote"
    /\ request[1] = request[2]
    /\ resp[1] = resp[2]
    /\ result[1].kind = "Ok" /\ result[2] = result[1]

====
